---- MODULE Spec2Model ----
(***************************************************************************)
(* Ingestion pipeline of app/backend/prepdocslib: the enrichment client    *)
(* (ContentUnderstandingDescriber: create_analyzer, describe_image and the *)
(* bounded-retry poll_api), the orchestrator (FileStrategy.setup / run),   *)
(* UploadUserFileStrategy.add_file / remove_file, parse_file and the       *)
(* plan-identifier extractor; and, under their own                         *)
(* specification SpecParsers, the parsers CsvParser and TextParser, and    *)
(* under SpecJson the parser JsonParser.                                   *)
(*                                                                         *)
(* External collaborators (HTTP service, lister, parser, splitter, blob    *)
(* store, embeddings, search manager, language model) answer               *)
(* nondeterministically; every call made to one of them is appended to     *)
(* the log `calls`.                                                        *)
(***************************************************************************)
EXTENDS Integers, Sequences, FiniteSets, TLC

\* ------------------------------------------------------------------ bounds
\* Longest list a lister yields in one run.
MaxFiles == 2
\* Longest content, in bytes, handed to a parser.
MaxContentLen == 5
\* Longest JSON content, in lexemes, handed to JsonParser.
MaxJsonLexemes == 5

\* ------------------------------------------------------- program constants
\* stop_after_attempt(60)
MaxAttempts == 60
\* wait_fixed(2)
WaitSeconds == 2

\* --------------------------------------------------------------- exceptions
NoErr == [type |-> "none", msg |-> ""]
Exc(t, m) == [type |-> t, msg |-> m]

\* Python's isinstance on the exception classes that occur here: every one of
\* them derives from Exception and from nothing else that occurs here.
IsInstance(e, cls) == e.type # "none" /\ (cls = e.type \/ cls = "Exception")

ExcClasses ==
  {"Exception", "ValueError", "RetryError", "ClientResponseError", "KeyError", "NameError",
   "AttributeError"}

\* A caller can tell two raised exceptions apart when some except clause
\* catches one and not the other.
Distinguishable(e1, e2) ==
  \E cls \in ExcClasses : IsInstance(e1, cls) # IsInstance(e2, cls)

\* ------------------------------------------------------------ configuration
DocumentActions == {"Add", "Remove", "RemoveAll"}
Credentials == {"AzureKeyCredential", "AsyncTokenCredential"}
Endpoints == {"None", "https://cu"}

\* ------------------------------------------------- the enrichment service
\* What one poll GET can be answered with: an HTTP error status, a body
\* without "status", or a body with one of these statuses.
PollStatuses == {"Running", "Failed", "Succeeded", "NotStarted"}
PollAnswers == PollStatuses \cup {"HTTPError", "NoStatus"}
PutStatuses == {200, 201, 400, 409, 500}
PollHandles == {"opA", "opB"}

VARIABLES
  \* FileStrategy fields set by __init__
  document_action, use_content_understanding, content_understanding_endpoint,
  credential, image_embeddings,
  \* control
  entry,      \* the entry point that was called, "none" before the call
  pc,         \* position inside it
  err,        \* the exception the entry point ended with, NoErr otherwise
  calls,      \* log of the calls made to collaborators
  \* create_analyzer / describe_image / poll_api
  poll_url,   \* the Operation-Location taken from the response
  pollState,  \* "none", "polling", "returned", "raised"
  pollErr,    \* what poll_api raised
  gets,       \* the answers to the GETs issued so far, in order
  waited,     \* seconds slept between attempts
  results,    \* the body poll_api returned
  puts,       \* the status codes the PUTs were answered with, in order
  \* run / parse_file
  files,          \* what the lister yields, in order (extensions or paths)
  cur,            \* index in files of the file being processed, 0 for none
  openai_client,  \* parse_file's openai_client argument
  pages,          \* the texts of the pages the parser produced
  planid,         \* parse_file's planid
  sections,       \* the sections of the current file
  blob_sas_uris,  \* what upload_blob returned
  pending,        \* the exception in flight while the finally block runs
  indexed,        \* the arguments of the update_content calls, in order
  \* the parsers
  parse_content,  \* the content handed to Parser.parse: its type and its data
  parsed,         \* the Pages the parser has yielded, in order
  \* UploadUserFileStrategy.remove_file
  remove_args,    \* the filename and oid remove_file was called with
  removed         \* the arguments of its remove_content calls, in order

cfgVars == <<document_action, use_content_understanding, content_understanding_endpoint,
             credential, image_embeddings>>
pollVars == <<poll_url, pollState, pollErr, gets, waited, results, puts>>
fileVars == <<files, cur, openai_client, pages, planid, sections, blob_sas_uris, pending>>
parserVars == <<parse_content, parsed>>
userVars == <<remove_args, removed>>
vars == <<cfgVars, entry, pc, err, calls, pollVars, fileVars, indexed, parserVars, userVars>>

NoBody == [status |-> "none", seq |-> 0, url |-> "none"]
NoContent == [type |-> "none", data |-> <<>>]
NoArgs == [filename |-> "none", oid |-> "none"]

\* One entry of the log: the operation, the file (index in files) it is
\* about, 0 when it is about no file, and whether the call raised (the answers
\* of the HTTP service are kept in puts and gets instead).
Ev(o, f) == [op |-> o, file |-> f, raised |-> FALSE]
EvRaised(o, f) == [op |-> o, file |-> f, raised |-> TRUE]
Log(o, f) == calls' = Append(calls, Ev(o, f))
LogRaised(o, f) == calls' = Append(calls, EvRaised(o, f))
Positions(o, f) == {i \in 1..Len(calls) : calls[i].op = o /\ calls[i].file = f}
Count(o) == Cardinality({i \in 1..Len(calls) : calls[i].op = o})
CountFor(o, f) == Cardinality(Positions(o, f))

Init ==
  /\ document_action \in DocumentActions
  /\ use_content_understanding \in BOOLEAN
  /\ content_understanding_endpoint \in Endpoints
  /\ credential \in Credentials
  /\ image_embeddings \in BOOLEAN
  /\ entry = "none"
  /\ pc = "idle"
  /\ err = NoErr
  /\ calls = <<>>
  /\ poll_url = "none"
  /\ pollState = "none"
  /\ pollErr = NoErr
  /\ gets = <<>>
  /\ waited = 0
  /\ results = NoBody
  /\ puts = <<>>
  /\ files = <<>>
  /\ cur = 0
  /\ openai_client = "None"
  /\ pages = <<>>
  /\ planid = "None"
  /\ sections = <<>>
  /\ blob_sas_uris = <<>>
  /\ pending = NoErr
  /\ indexed = <<>>
  /\ parse_content = NoContent
  /\ parsed = <<>>
  /\ remove_args = NoArgs
  /\ removed = <<>>

\* An entry point returns / raises to its caller.
Return == pc' = "done" /\ err' = NoErr
Raise(e) == pc' = "done" /\ err' = e

\* ------------------------------------------------------------------ poll_api
\* What the body of poll() raises for one answer (NoErr: it returns the body).
PollRaisesValueErrorOnHttpError(answer) ==
  CASE answer = "HTTPError" -> Exc("ValueError", "status")
    [] answer = "NoStatus"  -> Exc("KeyError", "status")
    [] answer = "Failed"    -> Exc("Exception", "Failed")
    [] answer = "Running"   -> Exc("ValueError", "Running")
    [] OTHER                -> NoErr

PollRaises(answer) ==
  CASE answer = "HTTPError" -> Exc("ClientResponseError", "status")
    [] answer = "NoStatus"  -> Exc("KeyError", "status")
    [] answer = "Failed"    -> Exc("Exception", "Failed")
    [] answer = "Running"   -> Exc("ValueError", "Running")
    [] OTHER                -> NoErr

\* retry=retry_if_exception_type(ValueError)
RetryOnAnyException(e) == IsInstance(e, "Exception")

ShouldRetry(e) == IsInstance(e, "ValueError")

\* stop=stop_after_attempt(60), asked after the attempt numbered n failed
StopOneAttemptLater(n) == n >= MaxAttempts + 1

StopOneAttemptEarlier(n) == n >= MaxAttempts - 1

StopAfterAttempt(n) == n >= MaxAttempts

\* tenacity with reraise unset wraps the last failure in RetryError
Exhausted(last) == Exc("RetryError", last.msg)

\* Where control goes when poll_api returns to the entry point that called it.
AfterPoll == IF entry = "describe_image" THEN "di_fields" ELSE "done"

\* One attempt of poll(): the GET, the reading of the answer, and tenacity's
\* decision to return, to raise or to sleep and try again.
poll ==
  /\ pc = "poll"
  /\ \E answer \in PollAnswers :
       LET n == Len(gets) + 1
           body == [status |-> answer, seq |-> n, url |-> poll_url]
           e == PollRaises(answer)
       IN /\ gets' = Append(gets, body)
          /\ Log("GET", 0)
          /\ IF e = NoErr
               THEN /\ pollState' = "returned"
                    /\ results' = body
                    /\ pc' = AfterPoll
                    /\ UNCHANGED <<err, pollErr, waited>>
             ELSE IF ShouldRetry(e) /\ ~StopAfterAttempt(n)
               THEN /\ waited' = waited + WaitSeconds
                    /\ UNCHANGED <<pc, err, pollState, pollErr, results>>
             ELSE LET raised == IF ShouldRetry(e) THEN Exhausted(e) ELSE e
                  IN /\ pollState' = "raised"
                     /\ pollErr' = raised
                     /\ Raise(raised)
                     /\ UNCHANGED <<waited, results>>
  /\ UNCHANGED <<cfgVars, userVars, parserVars, indexed, entry, poll_url, puts, fileVars>>

\* ---------------------------------------------------------- create_analyzer
\* The branch create_analyzer takes on the PUT's status code.
PutBranchAcceptsAnyCode(status) ==
  IF status = 409 THEN "return" ELSE "poll"

PutBranchPollsOnConflict(status) ==
  IF status = 409 THEN "poll" ELSE IF status # 201 THEN "raise" ELSE "poll"

PutBranch(status) ==
  IF status = 409 THEN "return" ELSE IF status # 201 THEN "raise" ELSE "poll"

\* The URL create_analyzer polls: the response's Operation-Location header.
PollUrlIgnoresHeader(header) == "none"

PollUrlOf(header) == header

create_analyzer ==
  /\ pc = "create_analyzer"
  /\ \E status \in PutStatuses, header \in PollHandles :
       /\ Log("PUT", 0)
       /\ puts' = Append(puts, [status |-> status, header |-> header])
       /\ CASE PutBranch(status) = "return" ->
                 /\ Return
                 /\ UNCHANGED <<poll_url, pollState>>
            [] PutBranch(status) = "raise" ->
                 /\ Raise(Exc("Exception", "Error creating analyzer"))
                 /\ UNCHANGED <<poll_url, pollState>>
            [] OTHER ->
                 /\ poll_url' = PollUrlOf(header)
                 /\ pollState' = "polling"
                 /\ pc' = "poll"
                 /\ UNCHANGED err
  /\ UNCHANGED <<cfgVars, userVars, parserVars, indexed, entry, pollErr, gets, waited, results, fileVars>>

\* ------------------------------------------------------------ describe_image
\* A describer is constructed from an endpoint and an AsyncTokenCredential.
DescriberExists ==
  /\ use_content_understanding
  /\ content_understanding_endpoint # "None"
  /\ credential = "AsyncTokenCredential"

\* The POST that submits the image; raise_for_status ends the call on an HTTP
\* error, otherwise the Operation-Location header is polled.
describe_image ==
  /\ pc = "idle"
  /\ DescriberExists
  /\ entry' = "describe_image"
  /\ \E ok \in BOOLEAN, header \in PollHandles :
       /\ Log("POST", 0)
       /\ IF ok
            THEN /\ poll_url' = header
                 /\ pollState' = "polling"
                 /\ pc' = "poll"
                 /\ UNCHANGED err
            ELSE /\ Raise(Exc("ClientResponseError", "status"))
                 /\ UNCHANGED <<poll_url, pollState>>
  /\ UNCHANGED <<cfgVars, userVars, parserVars, indexed, pollErr, gets, waited, results, puts, fileVars>>

\* results["result"]["contents"][0]["fields"]["Description"]["valueString"]
describe_image_fields ==
  /\ pc = "di_fields"
  /\ \E present \in BOOLEAN :
       IF present THEN Return ELSE Raise(Exc("KeyError", "result"))
  /\ UNCHANGED <<cfgVars, userVars, parserVars, indexed, entry, calls, pollVars, fileVars>>

\* --------------------------------------------------------- FileStrategy.setup
\* The configuration error setup raises before creating the analyzer, if any.
SetupChecksEndpointOnly(endpoint, cred) ==
  IF endpoint = "None"
    THEN Exc("ValueError", "Content Understanding is enabled but no endpoint was provided")
  ELSE NoErr

SetupError(endpoint, cred) ==
  IF endpoint = "None"
    THEN Exc("ValueError", "Content Understanding is enabled but no endpoint was provided")
  ELSE IF cred = "AzureKeyCredential"
    THEN Exc("ValueError", "AzureKeyCredential is not supported for Content Understanding")
  ELSE NoErr

setup ==
  /\ pc = "idle"
  /\ entry' = "setup"
  /\ Log("create_index", 0)
  /\ IF ~use_content_understanding
       THEN Return
     ELSE IF SetupError(content_understanding_endpoint, credential) # NoErr
       THEN Raise(SetupError(content_understanding_endpoint, credential))
     ELSE pc' = "create_analyzer" /\ UNCHANGED err
  /\ UNCHANGED <<cfgVars, userVars, parserVars, indexed, pollVars, fileVars>>

\* ---------------------------------------------------------------- the files
\* The extensions a File can report, and str.lower on them.
Extensions == {".pdf", ".PDF", ".zip"}

Lower(ext) == IF ext = ".PDF" THEN ".pdf" ELSE ext

\* The keys of the processor table handed to the strategy.
file_processors == {".pdf", ".txt"}

\* file_processors.get(key): the processor, named by its key, or "None".
ProcessorFallsBack(key) == IF key \in file_processors THEN key ELSE ".txt"

ProcessorFor(key) == IF key \in file_processors THEN key ELSE "None"

\* Every list of at most n elements of S.
ListsUpTo(S, n) == UNION {[1..k -> S] : k \in 0..n}

\* The page texts a parser can produce: no page, a first page without text,
\* a first page with text.
PageLists == {<<>>, <<"">>, <<"Plan Identifier: 2025-X">>}

\* How many pieces the splitter cuts a file's pages into.
SplitCounts == {0, 2}

\* What upload_blob can return.
UriLists == {<<>>, <<"sas">>}

\* ------------------------------------------------ extract_plan_id_from_text
\* The names bound where the prompt is built: the parameters and the module's
\* globals.
ExtractorScope == {"text", "openai_client", "model", "logging", "Optional", "openai", "logger"}
\* The names the prompt's f-string parts read.
PromptReads == {"document_type", "locale", "text"}

\* What the model's message content can be, and content.strip().lower().
ModelContents == {"raises", "2025-X", "None", "  ", "{not json"}
StripLower(c) == IF c = "None" THEN "none" ELSE IF c = "  " THEN "" ELSE c
Strip(c) == IF c = "  " THEN "" ELSE c

\* The call extract_plan_id_from_text(text, openai_client) when the model
\* answers `content` ("raises": the model call raises): the exception it ends
\* with and the value it returns.
extract_plan_id_from_text(content) ==
  IF ~(PromptReads \subseteq ExtractorScope)
    THEN [raised |-> Exc("NameError", "document_type"), value |-> "None", asked |-> FALSE]
  ELSE IF content = "raises"
    THEN [raised |-> NoErr, value |-> "None", asked |-> TRUE]
  ELSE IF StripLower(content) = "none" \/ Strip(content) = ""
    THEN [raised |-> NoErr, value |-> "None", asked |-> TRUE]
  ELSE [raised |-> NoErr, value |-> Strip(content), asked |-> TRUE]

\* ---------------------------------------------------------------- parse_file
\* Where control goes when parse_file returns to the entry point that called it.
AfterParse ==
  CASE entry = "run"      -> "run_upload"
    [] entry = "add_file" -> "add_index"
    [] OTHER              -> "done"
\* Where control goes when parse_file raises: into run's finally block, or out.
ParseRaise(e) ==
  IF entry = "run"
    THEN pc' = "run_finally" /\ pending' = e /\ UNCHANGED err
    ELSE Raise(e) /\ UNCHANGED pending

\* parse_file called by a caller of its own, with or without a client.
parse_file ==
  /\ pc = "idle"
  /\ entry' = "parse_file"
  /\ \E ext \in Extensions, client \in {"None", "client"} :
       /\ files' = <<ext>>
       /\ openai_client' = client
  /\ cur' = 1
  /\ pc' = "pf_parse"
  /\ UNCHANGED <<cfgVars, userVars, parserVars, indexed, err, calls, pollVars, pages, planid, sections, blob_sas_uris, pending>>

\* The processor lookup and, when there is one, the parser's run over the
\* file's content.
parse_file_parse ==
  /\ pc = "pf_parse"
  /\ IF ProcessorFor(Lower(files[cur])) = "None"
       THEN /\ sections' = <<>>
            /\ pc' = AfterParse
            /\ UNCHANGED <<calls, pages, err, pending>>
       ELSE /\ \/ \E ps \in PageLists :
                    /\ Log("parse", cur)
                    /\ pages' = ps
                    /\ pc' = "pf_extract"
                    /\ UNCHANGED <<err, pending>>
               \/ /\ LogRaised("parse", cur)
                  /\ ParseRaise(Exc("Exception", "parse"))
                  /\ UNCHANGED pages
            /\ UNCHANGED sections
  /\ UNCHANGED <<cfgVars, userVars, parserVars, indexed, entry, pollVars, files, cur, openai_client, planid, blob_sas_uris>>

\* Whether parse_file calls the extractor.
ExtractsWithoutClient(key, ps, client) ==
  key = ".pdf" /\ ps # <<>> /\ ps[1] # ""

Extracts(key, ps, client) ==
  key = ".pdf" /\ ps # <<>> /\ client # "None" /\ ps[1] # ""

parse_file_extract ==
  /\ pc = "pf_extract"
  /\ IF Extracts(Lower(files[cur]), pages, openai_client)
       THEN \E content \in ModelContents :
              LET r == extract_plan_id_from_text(content)
              IN /\ calls' = calls \o
                       <<[op |-> "extract", file |-> cur, raised |-> r.raised # NoErr]>> \o
                       (IF r.asked THEN <<Ev("chat.completions.create", cur)>> ELSE <<>>)
                 /\ IF r.raised # NoErr
                      THEN ParseRaise(r.raised) /\ UNCHANGED planid
                      ELSE /\ planid' = r.value
                           /\ pc' = "pf_split"
                           /\ UNCHANGED <<err, pending>>
       ELSE /\ planid' = "None"
            /\ pc' = "pf_split"
            /\ UNCHANGED <<calls, err, pending>>
  /\ UNCHANGED <<cfgVars, userVars, parserVars, indexed, entry, pollVars, files, cur, openai_client, pages, sections,
                 blob_sas_uris>>

\* The sections parse_file builds from n split pages.
SectionsOf(n, f, pid) == [i \in 1..n |-> [file |-> f, planid |-> pid]]

parse_file_split ==
  /\ pc = "pf_split"
  /\ \/ \E n \in SplitCounts :
          /\ Log("split", cur)
          /\ sections' = SectionsOf(n, cur, planid)
          /\ pc' = AfterParse
          /\ UNCHANGED <<err, pending>>
     \/ /\ LogRaised("split", cur)
        /\ ParseRaise(Exc("Exception", "split"))
        /\ UNCHANGED sections
  /\ UNCHANGED <<cfgVars, userVars, parserVars, indexed, entry, pollVars, files, cur, openai_client, pages, planid,
                 blob_sas_uris>>

\* ----------------------------------------------------------- FileStrategy.run
\* The lister method run calls for a document action, "none" for no call.
ListerCallAlwaysLists(action) ==
  IF action = "Add" THEN "lister.list" ELSE "lister.list_paths"

ListerCall(action) ==
  CASE action = "Add"    -> "lister.list"
    [] action = "Remove" -> "lister.list_paths"
    [] OTHER             -> "none"

\* run is entered, by a caller of its own or by main after setup: the search
\* manager (re)built and, for Add and Remove, the lister asked for its files
\* or paths.
run ==
  /\ pc \in {"idle", "main_setup_returned"}
  /\ entry' = "run"
  /\ calls' = IF ListerCall(document_action) = "none"
                THEN calls
                ELSE Append(calls, Ev(ListerCall(document_action), 0))
  /\ CASE document_action = "Add" ->
            /\ \E fs \in ListsUpTo(Extensions, MaxFiles) : files' = fs
            /\ pc' = "run_next"
       [] document_action = "Remove" ->
            /\ \E fs \in ListsUpTo({"path"}, MaxFiles) : files' = fs
            /\ pc' = "remove_next"
       [] OTHER ->
            /\ files' = <<>>
            /\ pc' = "remove_all"
  /\ UNCHANGED <<cfgVars, userVars, parserVars, indexed, err, pollVars, cur, openai_client, pages, planid,
                 sections, blob_sas_uris, pending>>

\* parse_file(file, self.file_processors): the openai_client run hands over.
ClientRunPassesTheClient == "client"

ClientRunPasses == "None"

\* async for file in files: the lister yields the next file, its content
\* open, or is exhausted. parse_file is then called without a client.
run_next ==
  /\ pc = "run_next"
  /\ IF cur < Len(files)
       THEN /\ cur' = cur + 1
            /\ Log("list", cur + 1)
            /\ pc' = "pf_parse"
            /\ UNCHANGED err
       ELSE /\ Return
            /\ UNCHANGED <<cur, calls>>
  /\ openai_client' = ClientRunPasses
  /\ pages' = <<>>
  /\ planid' = "None"
  /\ sections' = <<>>
  /\ blob_sas_uris' = <<>>
  /\ UNCHANGED <<cfgVars, userVars, parserVars, indexed, entry, pollVars, files, pending>>

\* `if sections:`
UploadsAlways(secs) == TRUE

ShouldUpload(secs) == secs # <<>>

\* if sections: upload_blob(file)
run_upload ==
  /\ pc = "run_upload"
  /\ IF ShouldUpload(sections)
       THEN /\ \/ \E uris \in UriLists :
                    /\ Log("upload_blob", cur)
                    /\ blob_sas_uris' = uris
                    /\ pc' = "run_embed"
                    /\ UNCHANGED pending
               \/ /\ LogRaised("upload_blob", cur)
                  /\ pc' = "run_finally"
                  /\ pending' = Exc("Exception", "upload_blob")
                  /\ UNCHANGED blob_sas_uris
       ELSE /\ pc' = "run_finally"
            /\ UNCHANGED <<calls, blob_sas_uris, pending>>
  /\ UNCHANGED <<cfgVars, userVars, parserVars, indexed, entry, err, pollVars, files, cur, openai_client, pages, planid, sections>>

\* if self.image_embeddings and blob_sas_uris: create_embeddings(blob_sas_uris)
run_embed ==
  /\ pc = "run_embed"
  /\ IF image_embeddings /\ blob_sas_uris # <<>>
       THEN \/ /\ Log("create_embeddings", cur)
               /\ pc' = "run_index"
               /\ UNCHANGED pending
            \/ /\ LogRaised("create_embeddings", cur)
               /\ pc' = "run_finally"
               /\ pending' = Exc("Exception", "create_embeddings")
       ELSE /\ pc' = "run_index"
            /\ UNCHANGED <<calls, pending>>
  /\ UNCHANGED <<cfgVars, userVars, parserVars, indexed, entry, err, pollVars, files, cur, openai_client, pages, planid, sections,
                 blob_sas_uris>>

\* The sections run hands to update_content.
IndexArgsFirstOnly(secs) == SubSeq(secs, 1, 1)

IndexArgs(secs) == secs

\* update_content(sections, blob_image_embeddings, url=file.url)
run_index ==
  /\ pc = "run_index"
  /\ indexed' = Append(indexed, [sections |-> IndexArgs(sections), url |-> cur])
  /\ \/ Log("update_content", cur) /\ pending' = NoErr
     \/ LogRaised("update_content", cur) /\ pending' = Exc("Exception", "update_content")
  /\ pc' = "run_finally"
  /\ UNCHANGED <<cfgVars, userVars, parserVars, entry, err, pollVars, files, cur, openai_client, pages, planid, sections,
                 blob_sas_uris>>

\* `if file:` in the finally block: a File defines neither __bool__ nor __len__.
FileIsFalsy(f) == FALSE

FileIsTruthy(f) == TRUE

\* Whether the exception in flight leaves the loop once the finally block is done.
Swallowed(e) == FALSE

Propagates(e) == e # NoErr

\* finally: if file: file.close(); then the exception in flight, if any,
\* leaves run.
run_finally ==
  /\ pc = "run_finally"
  /\ IF FileIsTruthy(cur) THEN Log("close", cur) ELSE UNCHANGED calls
  /\ IF Propagates(pending)
       THEN Raise(pending)
       ELSE pc' = "run_next" /\ UNCHANGED err
  /\ pending' = NoErr
  /\ UNCHANGED <<cfgVars, userVars, parserVars, indexed, entry, pollVars, files, cur, openai_client, pages, planid, sections,
                 blob_sas_uris>>

\* The k-th call made for one path, or for all blobs and documents.
RemoveCallSwapped(k) == IF k = 1 THEN "remove_content" ELSE "remove_blob"

RemoveCall(k) == IF k = 1 THEN "remove_blob" ELSE "remove_content"

\* async for path in paths: the lister yields the next path, for which
\* remove_blob(path) is called, or is exhausted.
remove_next ==
  /\ pc = "remove_next"
  /\ IF cur < Len(files)
       THEN /\ cur' = cur + 1
            /\ \/ /\ Log(RemoveCall(1), cur + 1)
                  /\ pc' = "remove_second"
                  /\ UNCHANGED err
               \/ /\ LogRaised(RemoveCall(1), cur + 1)
                  /\ Raise(Exc("Exception", RemoveCall(1)))
       ELSE /\ Return
            /\ UNCHANGED <<cur, calls>>
  /\ UNCHANGED <<cfgVars, userVars, parserVars, indexed, entry, pollVars, files, openai_client, pages, planid,
                 sections, blob_sas_uris, pending>>

\* remove_blob() without a path
remove_all ==
  /\ pc = "remove_all"
  /\ \/ /\ Log(RemoveCall(1), 0)
        /\ pc' = "remove_second"
        /\ UNCHANGED err
     \/ /\ LogRaised(RemoveCall(1), 0)
        /\ Raise(Exc("Exception", RemoveCall(1)))
  /\ UNCHANGED <<cfgVars, userVars, parserVars, indexed, entry, pollVars, fileVars>>

\* remove_content(path) after remove_blob(path), remove_content() after
\* remove_blob()
remove_second ==
  /\ pc = "remove_second"
  /\ \/ /\ Log(RemoveCall(2), cur)
        /\ IF document_action = "Remove"
             THEN pc' = "remove_next" /\ UNCHANGED err
             ELSE Return
     \/ /\ LogRaised(RemoveCall(2), cur)
        /\ Raise(Exc("Exception", RemoveCall(2)))
  /\ UNCHANGED <<cfgVars, userVars, parserVars, indexed, entry, pollVars, fileVars>>

\* ---------------------------------------------------- UploadUserFileStrategy
\* add_file(file): parse_file is called for the file the caller hands over,
\* without a client.
add_file ==
  /\ pc = "idle"
  /\ entry' = "add_file"
  /\ \E ext \in Extensions : files' = <<ext>>
  /\ cur' = 1
  /\ openai_client' = "None"
  /\ pc' = "pf_parse"
  /\ UNCHANGED <<cfgVars, userVars, parserVars, indexed, err, calls, pollVars, pages, planid, sections,
                 blob_sas_uris, pending>>

\* if sections: update_content(sections, url=file.url); then add_file returns.
add_file_index ==
  /\ pc = "add_index"
  /\ IF ShouldUpload(sections)
       THEN /\ indexed' = Append(indexed, [sections |-> sections, url |-> cur])
            /\ \/ Log("update_content", cur) /\ Return
               \/ LogRaised("update_content", cur) /\ Raise(Exc("Exception", "update_content"))
       ELSE Return /\ UNCHANGED <<calls, indexed>>
  /\ UNCHANGED <<cfgVars, userVars, parserVars, entry, pollVars, fileVars>>

\* The filenames and owner identifiers remove_file is called with.
Filenames == {"None", "", "a.pdf"}
Oids == {"oid1", "oid2"}

\* `if filename is None or filename == "":`
FilenameIsEmptyOnlyWhenNone(filename) == filename = "None"

FilenameIsEmpty(filename) == filename = "None" \/ filename = ""

\* The arguments of search_manager.remove_content(filename, oid).
RemoveContentArgs(filename, oid) == [filename |-> filename, oid |-> oid]

remove_file ==
  /\ pc = "idle"
  /\ entry' = "remove_file"
  /\ \E filename \in Filenames, oid \in Oids :
       /\ remove_args' = [filename |-> filename, oid |-> oid]
       /\ IF FilenameIsEmpty(filename)
            THEN Return /\ UNCHANGED <<calls, removed>>
            ELSE /\ removed' = Append(removed, RemoveContentArgs(filename, oid))
                 /\ \/ Log("remove_content", 0) /\ Return
                    \/ LogRaised("remove_content", 0) /\ Raise(Exc("Exception", "remove_content"))
  /\ UNCHANGED <<cfgVars, parserVars, indexed, pollVars, fileVars>>

\* ----------------------------------------------------------------------- main
\* The caller of the strategy: setup first, run only once setup has returned;
\* an error of setup leaves main. What setup left behind (the answers of the
\* service, the log) is dropped when run is about to be called.
MainRunsWhateverSetupDid(e) == TRUE

MainGoesOn(e) == e = NoErr

main_setup_returned ==
  /\ entry = "setup"
  /\ pc = "done"
  /\ MainGoesOn(err)
  /\ pc' = "main_setup_returned"
  /\ entry' = "none"
  /\ err' = NoErr
  /\ calls' = <<>>
  /\ poll_url' = "none"
  /\ pollState' = "none"
  /\ pollErr' = NoErr
  /\ gets' = <<>>
  /\ waited' = 0
  /\ results' = NoBody
  /\ puts' = <<>>
  /\ UNCHANGED <<cfgVars, userVars, parserVars, indexed, fileVars>>

Next ==
  \/ setup
  \/ create_analyzer
  \/ describe_image
  \/ describe_image_fields
  \/ poll
  \/ parse_file
  \/ parse_file_parse
  \/ parse_file_extract
  \/ parse_file_split
  \/ run
  \/ run_next
  \/ run_upload
  \/ run_embed
  \/ run_index
  \/ run_finally
  \/ remove_next
  \/ remove_all
  \/ remove_second
  \/ add_file
  \/ add_file_index
  \/ remove_file
  \/ main_setup_returned

Spec == Init /\ [][Next]_vars

\* ================================================================ the parsers
\* The bytes a content is made of: a , " LF space TAB.
Bytes == {97, 44, 34, 10, 32, 9}
Contents == ListsUpTo(Bytes, MaxContentLen)

\* What a caller can hand to Parser.parse: a bytes object, a binary stream
\* (read() returns bytes), a text stream (read() returns str).
ContentTypes == {"bytes", "BufferedReader", "TextIOWrapper"}

\* A str is the sequence of its characters.
Chr(b) ==
  CASE b = 97 -> "a"
    [] b = 44 -> ","
    [] b = 34 -> "\""
    [] b = 10 -> "\n"
    [] b = 32 -> " "
    [] b = 9  -> "\t"
    [] b = 91 -> "["
    [] b = 93 -> "]"
    [] b = 123 -> "{"
    [] b = 125 -> "}"
    [] b = 58 -> ":"
    [] b = 107 -> "k"

\* bytes.decode("utf-8") on ASCII bytes.
decode(bs) == [i \in 1..Len(bs) |-> Chr(bs[i])]

Page(page_num, offset, text) == [page_num |-> page_num, offset |-> offset, text |-> text]

NoStr == [raised |-> NoErr, str |-> <<>>]

\* ------------------------------------------------------------ CsvParser.parse
\* content_str, or the exception raised on the way to it.
CsvContentStr(c) ==
  CASE c.type = "bytes"          -> [NoStr EXCEPT !.str = decode(c.data)]
    [] c.type = "BufferedReader" -> [NoStr EXCEPT !.str = decode(c.data)]
    [] c.type = "TextIOWrapper"  ->
         [NoStr EXCEPT !.raised = Exc("AttributeError", "'str' object has no attribute 'decode'")]

\* The position of the first line feed of s, Len(s) + 1 when it has none.
FirstLF(s) ==
  IF \E i \in 1..Len(s) : s[i] = "\n"
    THEN CHOOSE i \in 1..Len(s) : s[i] = "\n" /\ \A j \in 1..(i - 1) : s[j] # "\n"
    ELSE Len(s) + 1

\* str.splitlines: the lines without their line feed; no empty last line.
RECURSIVE splitlines(_)
splitlines(s) ==
  IF s = <<>>
    THEN <<>>
    ELSE <<SubSeq(s, 1, FirstLF(s) - 1)>> \o splitlines(SubSeq(s, FirstLF(s) + 1, Len(s)))

\* csv.reader with the default (excel) dialect: delimiter ",", quotechar "\"",
\* doublequote, not strict.  The reader's state between two characters.
StartRecord == [state |-> "START_RECORD", field |-> <<>>, fields |-> <<>>]

SaveField(st, next) ==
  [state |-> next, field |-> <<>>, fields |-> Append(st.fields, st.field)]

AddChar(st, c, next) ==
  [state |-> next, field |-> Append(st.field, c), fields |-> st.fields]

\* One character c of a line, or "EOL" at the end of the line.
parse_process_char(st, c) ==
  CASE st.state = "START_RECORD" /\ c = "EOL" -> st
    [] st.state \in {"START_RECORD", "START_FIELD"} /\ c # "EOL" ->
         IF c = "\"" THEN [st EXCEPT !.state = "IN_QUOTED_FIELD"]
         ELSE IF c = "," THEN SaveField(st, "START_FIELD")
         ELSE AddChar(st, c, "IN_FIELD")
    [] st.state = "START_FIELD" /\ c = "EOL" -> SaveField(st, "START_RECORD")
    [] st.state = "IN_FIELD" ->
         IF c = "EOL" THEN SaveField(st, "START_RECORD")
         ELSE IF c = "," THEN SaveField(st, "START_FIELD")
         ELSE AddChar(st, c, "IN_FIELD")
    [] st.state = "IN_QUOTED_FIELD" ->
         IF c = "EOL" THEN st
         ELSE IF c = "\"" THEN [st EXCEPT !.state = "QUOTE_IN_QUOTED_FIELD"]
         ELSE AddChar(st, c, "IN_QUOTED_FIELD")
    [] st.state = "QUOTE_IN_QUOTED_FIELD" ->
         IF c = "\"" THEN AddChar(st, c, "IN_QUOTED_FIELD")
         ELSE IF c = "," THEN SaveField(st, "START_FIELD")
         ELSE IF c = "EOL" THEN SaveField(st, "START_RECORD")
         ELSE AddChar(st, c, "IN_FIELD")

\* The reader's state after the characters of a line.
RECURSIVE FeedLine(_, _)
FeedLine(st, line) ==
  IF line = <<>> THEN st ELSE FeedLine(parse_process_char(st, Head(line)), Tail(line))

\* next(reader): lines are taken from position i on until a record is
\* complete; at the end of the input a field left open is saved and the
\* record returned.  some is FALSE for StopIteration.
RECURSIVE ReadRecord(_, _, _)
ReadRecord(lines, i, st) ==
  IF i > Len(lines)
    THEN IF st.field # <<>> \/ st.state = "IN_QUOTED_FIELD"
           THEN [some |-> TRUE, row |-> Append(st.fields, st.field), next |-> i]
           ELSE [some |-> FALSE, row |-> <<>>, next |-> i]
    ELSE LET after == parse_process_char(FeedLine(st, lines[i]), "EOL")
         IN IF after.state = "START_RECORD"
              THEN [some |-> TRUE, row |-> after.fields, next |-> i + 1]
              ELSE ReadRecord(lines, i + 1, after)

\* The rows csv.reader yields from line i on.
RECURSIVE RowsFrom(_, _)
RowsFrom(lines, i) ==
  LET r == ReadRecord(lines, i, StartRecord)
  IN IF r.some THEN <<r.row>> \o RowsFrom(lines, r.next) ELSE <<>>

csv_reader(lines) == RowsFrom(lines, 1)

\* next(reader, None): the rows left in the reader.
KeepsHeader(rows) == rows

SkipHeader(rows) == IF rows = <<>> THEN <<>> ELSE Tail(rows)

\* ",".join(row)
RECURSIVE join(_)
join(row) ==
  IF row = <<>> THEN <<>>
  ELSE IF Len(row) = 1 THEN row[1]
  ELSE row[1] \o <<",">> \o join(Tail(row))

\* The loop over enumerate(reader): the Pages yielded from row i on.
RECURSIVE PagesFrom(_, _, _)
PagesFrom(rows, i, offset) ==
  IF i > Len(rows)
    THEN <<>>
    ELSE <<Page(i - 1, offset, join(rows[i]))>>
           \o PagesFrom(rows, i + 1, offset + Len(join(rows[i])) + 1)

CsvPages(content_str) == PagesFrom(SkipHeader(csv_reader(splitlines(content_str))), 1, 0)

CsvParser_parse ==
  /\ pc = "idle"
  /\ parse_content # NoContent
  /\ entry' = "CsvParser.parse"
  /\ LET s == CsvContentStr(parse_content)
     IN IF s.raised # NoErr
          THEN Raise(s.raised) /\ parsed' = <<>>
          ELSE Return /\ parsed' = CsvPages(s.str)
  /\ UNCHANGED <<cfgVars, userVars, parse_content, calls, indexed, pollVars, fileVars>>

\* ----------------------------------------------------------- TextParser.parse
\* decoded_data, or the exception raised on the way to it.
TextDecodedData(c) ==
  CASE c.type = "bytes"          ->
         [NoStr EXCEPT !.raised = Exc("AttributeError", "'bytes' object has no attribute 'read'")]
    [] c.type = "BufferedReader" -> [NoStr EXCEPT !.str = decode(c.data)]
    [] c.type = "TextIOWrapper"  ->
         [NoStr EXCEPT !.raised = Exc("AttributeError", "'str' object has no attribute 'decode'")]

\* \s and [^\S\n] on the characters that occur here.
Whitespace == {" ", "\t", "\n"}
Blank == Whitespace \ {"\n"}

\* re.sub(r"\n{2,}", "\n", data)
RECURSIVE sub_newlines(_)
sub_newlines(s) ==
  IF Len(s) < 2 THEN s
  ELSE IF s[1] = "\n" /\ s[2] = "\n" THEN sub_newlines(Tail(s))
  ELSE <<s[1]>> \o sub_newlines(Tail(s))

\* re.sub(r"[^\S\n]{2,}", " ", output)
RECURSIVE sub_blanks(_)
sub_blanks(s) ==
  IF Len(s) < 2 THEN s
  ELSE IF s[1] \in Blank /\ s[2] \in Blank THEN sub_blanks(<<" ">> \o SubSeq(s, 3, Len(s)))
  ELSE <<s[1]>> \o sub_blanks(Tail(s))

\* str.strip()
RECURSIVE strip(_)
strip(s) ==
  IF s = <<>> THEN s
  ELSE IF s[1] \in Whitespace THEN strip(Tail(s))
  ELSE IF s[Len(s)] \in Whitespace THEN strip(SubSeq(s, 1, Len(s) - 1))
  ELSE s

CleanupKeepsBlanks(data) == strip(sub_newlines(data))

cleanup_data(data) == strip(sub_blanks(sub_newlines(data)))

TextParser_parse ==
  /\ pc = "idle"
  /\ parse_content # NoContent
  /\ entry' = "TextParser.parse"
  /\ LET d == TextDecodedData(parse_content)
     IN IF d.raised # NoErr
          THEN Raise(d.raised) /\ parsed' = <<>>
          ELSE Return /\ parsed' = <<Page(0, 0, cleanup_data(d.str))>>
  /\ UNCHANGED <<cfgVars, userVars, parse_content, calls, indexed, pollVars, fileVars>>

\* ----------------------------------------------------------- JsonParser.parse
\* The lexemes a JSON content is made of:  [ ] { } , : "k"
JsonLexemes == {<<91>>, <<93>>, <<123>>, <<125>>, <<44>>, <<58>>, <<34, 107, 34>>}

RECURSIVE Flatten(_)
Flatten(ls) == IF ls = <<>> THEN <<>> ELSE Head(ls) \o Flatten(Tail(ls))

JsonContents == {Flatten(ls) : ls \in ListsUpTo(JsonLexemes, MaxJsonLexemes)}

\* A JSON value json.loads returns is kept as its type (kind), the text
\* json.dumps gives for it (text) and, for a list, the texts json.dumps gives
\* for its elements (elems); next is the position after the value in the
\* source.  ok is FALSE for JSONDecodeError.
NoValue == [ok |-> FALSE, kind |-> "none", text |-> <<>>, elems |-> <<>>, next |-> 0]

Value(kind, text, elems, next) ==
  [ok |-> TRUE, kind |-> kind, text |-> text, elems |-> elems, next |-> next]

\* The position of the first double quote of s from position i on, 0 for none.
ClosingQuote(s, i) ==
  IF \E j \in i..Len(s) : s[j] = "\""
    THEN CHOOSE j \in i..Len(s) : s[j] = "\"" /\ \A h \in i..(j - 1) : s[h] # "\""
    ELSE 0

\* ", ".join(texts), json.dumps' item separator
RECURSIVE JoinItems(_)
JoinItems(texts) ==
  IF texts = <<>> THEN <<>>
  ELSE IF Len(texts) = 1 THEN texts[1]
  ELSE texts[1] \o <<",", " ">> \o JoinItems(Tail(texts))

\* json.dumps of a list and of a dict.  The keys that occur here are all "k",
\* so a dict has one member, the last one of its source (later members replace
\* earlier ones of the same key).
DumpsList(texts) == <<"[">> \o JoinItems(texts) \o <<"]">>
DumpsDict(key, text) == <<"{">> \o key \o <<":", " ">> \o text \o <<"}">>

\* json.loads, the scanner: a value starts at position i of s.
RECURSIVE ScanValue(_, _)
RECURSIVE ScanElements(_, _, _)
RECURSIVE ScanMembers(_, _)
ScanString(s, i) ==
  IF i > Len(s) \/ s[i] # "\"" \/ ClosingQuote(s, i + 1) = 0
    THEN NoValue
    ELSE Value("str", SubSeq(s, i, ClosingQuote(s, i + 1)), <<>>, ClosingQuote(s, i + 1) + 1)

ScanValue(s, i) ==
  IF i > Len(s) THEN NoValue
  ELSE CASE s[i] = "\"" -> ScanString(s, i)
         [] s[i] = "["  ->
              IF i + 1 <= Len(s) /\ s[i + 1] = "]"
                THEN Value("list", DumpsList(<<>>), <<>>, i + 2)
                ELSE ScanElements(s, i + 1, <<>>)
         [] s[i] = "{"  ->
              IF i + 1 <= Len(s) /\ s[i + 1] = "}"
                THEN Value("dict", <<"{", "}">>, <<>>, i + 2)
                ELSE ScanMembers(s, i + 1)
         [] OTHER       -> NoValue

\* The elements of a list from position i on, texts those of the elements
\* before.
ScanElements(s, i, texts) ==
  LET v == ScanValue(s, i)
  IN IF ~v.ok \/ v.next > Len(s) THEN NoValue
     ELSE IF s[v.next] = "," THEN ScanElements(s, v.next + 1, Append(texts, v.text))
     ELSE IF s[v.next] = "]"
       THEN Value("list", DumpsList(Append(texts, v.text)), Append(texts, v.text), v.next + 1)
     ELSE NoValue

\* The members of a dict from position i on.
ScanMembers(s, i) ==
  LET key == ScanString(s, i)
  IN IF ~key.ok \/ key.next > Len(s) \/ s[key.next] # ":" THEN NoValue
     ELSE LET v == ScanValue(s, key.next + 1)
          IN IF ~v.ok \/ v.next > Len(s) THEN NoValue
             ELSE IF s[v.next] = "," THEN ScanMembers(s, v.next + 1)
             ELSE IF s[v.next] = "}"
               THEN Value("dict", DumpsDict(key.text, v.text), <<>>, v.next + 1)
             ELSE NoValue

\* json.loads(s): one value and nothing after it.
json_loads(s) ==
  LET v == ScanValue(s, 1)
  IN IF v.ok /\ v.next = Len(s) + 1 THEN v ELSE NoValue

\* content.read(), or the exception raised by it.
JsonRead(c) ==
  CASE c.type = "bytes"          ->
         [NoStr EXCEPT !.raised = Exc("AttributeError", "'bytes' object has no attribute 'read'")]
    [] c.type = "BufferedReader" -> [NoStr EXCEPT !.str = decode(c.data)]
    [] c.type = "TextIOWrapper"  -> [NoStr EXCEPT !.str = decode(c.data)]

\* offset += 1  # For opening bracket or comma before object
OffsetLeftAsItIs(offset) == offset

OffsetOfElement(offset) == offset + 1

\* The loop over enumerate(data): the Pages yielded from element i on.
RECURSIVE JsonPagesFrom(_, _, _)
JsonPagesFrom(texts, i, offset) ==
  IF i > Len(texts)
    THEN <<>>
    ELSE <<Page(i - 1, OffsetOfElement(offset), texts[i])>>
           \o JsonPagesFrom(texts, i + 1, OffsetOfElement(offset) + Len(texts[i]))

\* The Pages yielded for the value json.loads returned.
JsonPages(data) ==
  CASE data.kind = "list" -> JsonPagesFrom(data.elems, 1, 0)
    [] data.kind = "dict" -> <<Page(0, 0, data.text)>>
    [] OTHER              -> <<>>

JsonParser_parse ==
  /\ pc = "idle"
  /\ parse_content # NoContent
  /\ entry' = "JsonParser.parse"
  /\ LET r == JsonRead(parse_content)
     IN IF r.raised # NoErr
          THEN Raise(r.raised) /\ parsed' = <<>>
          ELSE IF ~json_loads(r.str).ok
            THEN Raise(Exc("JSONDecodeError", "json.loads")) /\ parsed' = <<>>
            ELSE Return /\ parsed' = JsonPages(json_loads(r.str))
  /\ UNCHANGED <<cfgVars, userVars, parse_content, calls, indexed, pollVars, fileVars>>

\* The parsers are pure functions of the content: every content of at most
\* MaxContentLen bytes, in each of the three forms, is handed to one of them.
\* Nothing but a parser runs: the strategy's fields are at rest.
ParserIdle ==
  /\ document_action = "Add"
  /\ use_content_understanding = FALSE
  /\ content_understanding_endpoint = "None"
  /\ credential = "AsyncTokenCredential"
  /\ image_embeddings = FALSE
  /\ entry = "none"
  /\ pc = "idle"
  /\ err = NoErr
  /\ calls = <<>>
  /\ poll_url = "none"
  /\ pollState = "none"
  /\ pollErr = NoErr
  /\ gets = <<>>
  /\ waited = 0
  /\ results = NoBody
  /\ puts = <<>>
  /\ files = <<>>
  /\ cur = 0
  /\ openai_client = "None"
  /\ pages = <<>>
  /\ planid = "None"
  /\ sections = <<>>
  /\ blob_sas_uris = <<>>
  /\ pending = NoErr
  /\ indexed = <<>>
  /\ parsed = <<>>
  /\ remove_args = NoArgs
  /\ removed = <<>>

InitParsers ==
  /\ ParserIdle
  /\ parse_content \in [type : ContentTypes, data : Contents]

NextParsers ==
  \/ CsvParser_parse
  \/ TextParser_parse

SpecParsers == InitParsers /\ [][NextParsers]_vars

\* JsonParser is handed every content of at most MaxJsonLexemes lexemes, in
\* each of the three forms.
InitJson ==
  /\ ParserIdle
  /\ parse_content \in [type : ContentTypes, data : JsonContents]

NextJson == JsonParser_parse

SpecJson == InitJson /\ [][NextJson]_vars

\* ==================================================================== claims
Last(q) == q[Len(q)]
Front(q) == SubSeq(q, 1, Len(q) - 1)
AllRunning(q) == \A i \in 1..Len(q) : q[i].status = "Running"
SettledStatuses == PollStatuses \ {"Running", "Failed"}
InAdd == entry = "run" /\ document_action = "Add"
\* The operations of the per-file pipeline of run.
PipelineOps ==
  {"parse", "extract", "chat.completions.create", "split", "upload_blob",
   "create_embeddings", "update_content"}
\* The per-file block of file f has been left.
BlockLeft(f) == f < cur \/ (f = cur /\ pc \in {"run_next", "done"})
Unregistered(f) == Lower(files[f]) \notin file_processors
SomeCallRaised == \E i \in 1..Len(calls) : calls[i].raised

\* C1: while the service has answered "Running" to fewer than 60 GETs, poll_api
\* is still polling; and when k < 60 "Running" answers are followed by a status
\* other than "Running" and "Failed", poll_api has returned the body of that
\* (k+1)-th answer and exactly k+1 GETs have been issued, then and ever after.
C1_RunningThenSettledReturnsThatBody ==
  /\ (pollState # "none" /\ AllRunning(gets) /\ Len(gets) < MaxAttempts)
       => (pollState = "polling" /\ pc = "poll")
  /\ (gets # <<>> /\ AllRunning(Front(gets)) /\ Last(gets).status \in SettledStatuses)
       => /\ pollState = "returned"
          /\ results = Last(gets)
          /\ results.seq = Len(gets)
          /\ Count("GET") = Len(gets)
          /\ Len(gets) <= MaxAttempts

\* C1 witness: 59 "Running" answers, then a settled one, returned by the 60th GET.
C1_Witness ==
  /\ pollState = "returned"
  /\ Len(gets) = MaxAttempts
  /\ AllRunning(Front(gets))
  /\ results = Last(gets)

\* C2: poll_api never issues more than 60 GETs; when all 60 are answered
\* "Running" it has stopped, raising an error that a caller can tell apart from
\* the error a "Failed" status raises.
C2_SixtyRunningIsATimeoutDistinctFromFailed ==
  /\ Len(gets) <= MaxAttempts
  /\ Count("GET") <= MaxAttempts
  /\ (Len(gets) = MaxAttempts /\ AllRunning(gets))
       => /\ pollState = "raised"
          /\ pc = "done"
          /\ err = pollErr
          /\ pollErr # NoErr
          /\ Distinguishable(pollErr, PollRaises("Failed"))

\* C2 witness: the 60th "Running" answer has ended the polling.
C2_Witness ==
  /\ Len(gets) = MaxAttempts
  /\ AllRunning(gets)
  /\ pollState = "raised"

\* C3: a "Failed" answer is always the last answer: poll_api has raised
\* Exception("Failed") on it and issues no further GET, whatever is left of the
\* attempt budget.
C3_FailedRaisesAtOnce ==
  \A i \in 1..Len(gets) :
    gets[i].status = "Failed"
      => /\ i = Len(gets)
         /\ Count("GET") = i
         /\ pollState = "raised"
         /\ pollErr = Exc("Exception", "Failed")
         /\ pc = "done"
         /\ err = pollErr

\* C3 witness: "Failed" after two "Running" answers, 57 attempts unused.
C3_Witness ==
  /\ Len(gets) = 3
  /\ AllRunning(Front(gets))
  /\ gets[3].status = "Failed"
  /\ pollState = "raised"

\* C4: when the PUT is answered 409, create_analyzer has completed without
\* error, with one PUT and no GET.
C4_ConflictIsSuccessWithoutPolling ==
  (puts # <<>> /\ puts[1].status = 409)
    => /\ pc = "done"
       /\ err = NoErr
       /\ Len(puts) = 1
       /\ Count("PUT") = 1
       /\ Count("GET") = 0
       /\ gets = <<>>
       /\ pollState = "none"

\* C4 witness: create_analyzer has returned on a 409.
C4_Witness == puts # <<>> /\ puts[1].status = 409 /\ pc = "done" /\ entry = "setup"

\* C5: when the PUT is answered neither 201 nor 409, create_analyzer has raised,
\* polling never starts, and FileStrategy.setup ends with that error.
C5_UnexpectedCodeIsFatal ==
  (puts # <<>> /\ puts[1].status \notin {201, 409})
    => /\ entry = "setup"
       /\ pc = "done"
       /\ err = Exc("Exception", "Error creating analyzer")
       /\ Len(puts) = 1
       /\ Count("GET") = 0
       /\ gets = <<>>
       /\ pollState = "none"

\* C5 witness: setup has ended with the error of a PUT answered 500.
C5_Witness ==
  /\ puts # <<>>
  /\ puts[1].status = 500
  /\ entry = "setup"
  /\ pc = "done"
  /\ err # NoErr

\* C6: after a PUT answered 201, create_analyzer has returned without error
\* only if the last GET of the response's Operation-Location was answered with a
\* status other than "Running" and "Failed"; a "Failed" answer or 60 "Running"
\* answers end it in error.
C6_CreatedIsPolledToCompletion ==
  (entry = "setup" /\ puts # <<>> /\ puts[1].status = 201)
    => /\ (pc = "done" /\ err = NoErr)
            => /\ gets # <<>>
               /\ Last(gets).status \in SettledStatuses
               /\ \A i \in 1..Len(gets) : gets[i].url = puts[1].header
               /\ pollState = "returned"
       /\ ((\E i \in 1..Len(gets) : gets[i].status = "Failed")
             \/ (Len(gets) = MaxAttempts /\ AllRunning(gets)))
            => (pc = "done" /\ err # NoErr)

\* C6 witness: setup has returned after a 201 and a poll that took several GETs.
C6_Witness ==
  /\ entry = "setup"
  /\ puts # <<>>
  /\ puts[1].status = 201
  /\ pc = "done"
  /\ err = NoErr
  /\ Len(gets) >= 2

\* C7: in run with action Add, every file taken from the lister is closed at
\* most once, exactly once as soon as its per-file block has been left (by
\* whichever exit), and nothing is called for the file after its close.
C7_HandleClosedExactlyOnce ==
  InAdd =>
    \A f \in 1..Len(files) :
      /\ CountFor("close", f) <= 1
      /\ CountFor("list", f) = (IF f <= cur THEN 1 ELSE 0)
      /\ (f <= cur /\ BlockLeft(f)) => CountFor("close", f) = 1
      /\ CountFor("close", f) = 1 => BlockLeft(f)
      /\ \A i \in Positions("close", f) :
           \A j \in 1..Len(calls) : (calls[j].file = f /\ j # i) => j < i

\* C7 witness: the second file's block was left by an error of update_content,
\* and both files are closed.
C7_Witness ==
  /\ InAdd
  /\ cur = 2
  /\ pc = "done"
  /\ err = Exc("Exception", "update_content")
  /\ CountFor("close", 1) = 1
  /\ CountFor("close", 2) = 1

\* C8 as claimed: when run with action Add has ended, every file of the lister
\* has been taken and, if a processor is registered for it, parsed, also the
\* files that come after one whose processing failed.
C8_FailureDoesNotAbortTheBatch ==
  (InAdd /\ pc = "done")
    => \A f \in 1..Len(files) :
         /\ CountFor("list", f) = 1
         /\ ~Unregistered(f) => CountFor("parse", f) = 1

\* C8 amended: in run with action Add, a call that raises midway through a file
\* is followed by the close of that file and by nothing else: run ends with that
\* error, and no later file is taken from the lister, parsed, uploaded or indexed.
C8_FailureClosesTheFileAndEndsTheRun ==
  InAdd =>
    \A i \in 1..Len(calls) :
      calls[i].raised
        => /\ calls[i].op \in PipelineOps
           /\ calls[i].file = cur
           /\ \A j \in (i + 1)..Len(calls) : j = i + 1 /\ calls[j] = Ev("close", cur)
           /\ \/ pc = "run_finally" /\ pending # NoErr /\ Len(calls) = i
              \/ pc = "done" /\ err # NoErr /\ Len(calls) = i + 1

\* C8 witness: the first of two files failed in upload_blob; run has ended with
\* that error, the file closed and the second file never taken.
C8_Witness ==
  /\ InAdd
  /\ Len(files) = 2
  /\ cur = 1
  /\ pc = "done"
  /\ err = Exc("Exception", "upload_blob")
  /\ CountFor("close", 1) = 1
  /\ CountFor("list", 2) = 0

\* C9: in run with action Add, a file whose lower-cased extension has no entry
\* in the processor table has no sections, is only taken from the lister and
\* closed (no parser, splitter, upload, embedding or index call), raises
\* nothing, and run does not end on it unless it is the last file.
C9_UnregisteredExtensionIsSkipped ==
  InAdd =>
    \A f \in 1..Len(files) :
      Unregistered(f)
        => /\ \A i \in 1..Len(calls) :
                calls[i].file = f => (calls[i].op \in {"list", "close"} /\ ~calls[i].raised)
           /\ (cur = f) => (sections = <<>> /\ pending = NoErr)
           /\ (cur = f /\ pc = "done") => (f = Len(files) /\ err = NoErr)
           /\ (cur = f /\ pc = "run_next") => CountFor("close", f) = 1

\* C9 witness: the first file was skipped and the second one parsed.
C9_Witness ==
  /\ InAdd
  /\ Len(files) = 2
  /\ Unregistered(1)
  /\ CountFor("close", 1) = 1
  /\ CountFor("parse", 2) = 1

\* C10: whenever parse_file calls the extractor, the extractor does not raise,
\* and parse_file, unless the splitter fails, returns without error.
C10_ExtractionFailureNeverAborts ==
  \A i \in 1..Len(calls) :
    calls[i].op = "extract"
      => /\ ~calls[i].raised
         /\ (pc = "done" /\ ~SomeCallRaised) => err = NoErr
\* What a call was and which file it was about, without its outcome.
OpFile(c) == [op |-> c.op, file |-> c.file]
CallsMade == [i \in 1..Len(calls) |-> OpFile(calls[i])]
IsPrefix(p, q) == Len(p) <= Len(q) /\ \A i \in 1..Len(p) : p[i] = q[i]
\* A call of operation o for file f that returned is logged before position j.
ReturnedBefore(o, f, j) == \E i \in 1..(j - 1) : calls[i] = Ev(o, f)
InRemove == entry = "run" /\ document_action = "Remove"
InRemoveAll == entry = "run" /\ document_action = "RemoveAll"
SetupFailed == entry = "setup" /\ pc = "done" /\ err # NoErr

\* The place of each step in the per-file chain.
StepRank(o) ==
  CASE o = "list"                    -> 0
    [] o = "parse"                   -> 1
    [] o = "extract"                 -> 2
    [] o = "chat.completions.create" -> 3
    [] o = "split"                   -> 4
    [] o = "upload_blob"             -> 5
    [] o = "create_embeddings"       -> 6
    [] o = "update_content"          -> 7
    [] OTHER                         -> 8

\* C11: in run with action Add (and in parse_file called alone), the calls made
\* for one file come in the order parse, extraction, split, blob upload,
\* image-embedding computation, index update, each after the step it consumes
\* has returned, and update_content is handed exactly the sections the split of
\* that file produced.
C11_StepsOfAFileAreInOrder ==
  (InAdd \/ entry = "parse_file") =>
    /\ \A i, j \in 1..Len(calls) :
         (i < j /\ calls[i].file = calls[j].file /\ calls[i].file >= 1)
           => StepRank(calls[i].op) < StepRank(calls[j].op)
    /\ \A j \in 1..Len(calls) :
         LET o == calls[j].op
             f == calls[j].file
         IN /\ o \in {"extract", "split"} => ReturnedBefore("parse", f, j)
            /\ o = "upload_blob" => ReturnedBefore("split", f, j)
            /\ o = "create_embeddings" => (image_embeddings /\ ReturnedBefore("upload_blob", f, j))
            /\ o = "update_content" => ReturnedBefore("upload_blob", f, j)
    /\ Len(indexed) = Count("update_content")
    /\ \A k \in 1..Len(indexed) :
         /\ indexed[k].sections # <<>>
         /\ \A n \in 1..Len(indexed[k].sections) : indexed[k].sections[n].file = indexed[k].url
         /\ CountFor("update_content", indexed[k].url) = 1
         /\ (indexed[k].url = cur /\ pc = "run_finally") => indexed[k].sections = sections

\* C11 witness: one file went through the whole chain, embeddings included.
C11_Witness ==
  /\ InAdd
  /\ cur = 1
  /\ pc = "run_finally"
  /\ CallsMade = <<OpFile(Ev("lister.list", 0)), OpFile(Ev("list", 1)), OpFile(Ev("parse", 1)),
                   OpFile(Ev("split", 1)), OpFile(Ev("upload_blob", 1)),
                   OpFile(Ev("create_embeddings", 1)), OpFile(Ev("update_content", 1))>>
  /\ ~SomeCallRaised
  /\ indexed = <<[sections |-> sections, url |-> 1]>>

\* The calls run with action Remove makes for n paths when none raises.
RemoveCallsFor(n) ==
  [k \in 1..(2 * n + 1) |->
     IF k = 1 THEN OpFile(Ev("lister.list_paths", 0))
     ELSE IF k % 2 = 0 THEN OpFile(Ev("remove_blob", k \div 2))
     ELSE OpFile(Ev("remove_content", k \div 2))]

\* C12: in run with action Remove, the calls made are at every moment the
\* beginning of: the paths asked of the lister, then for each path in lister
\* order remove_blob(path) followed by remove_content(path); all of it once run
\* has returned; no other call is made, and a call that raises is the last.
C12_RemoveCallsPerPathInOrder ==
  InRemove =>
    /\ IsPrefix(CallsMade, RemoveCallsFor(Len(files)))
    /\ (pc = "done" /\ err = NoErr) => CallsMade = RemoveCallsFor(Len(files))
    /\ pc = "remove_next" => CallsMade = RemoveCallsFor(cur)
    /\ \A i \in 1..Len(calls) :
         calls[i].raised => (i = Len(calls) /\ pc = "done" /\ err # NoErr)
    /\ indexed = <<>>

\* C12 witness: two paths removed, run returned.
C12_Witness ==
  /\ InRemove
  /\ Len(files) = 2
  /\ pc = "done"
  /\ err = NoErr
  /\ Len(calls) = 5

\* C13: in run with action RemoveAll, whatever the configuration, the lister is
\* never asked and nothing is called for a file or path: the calls made are
\* remove_blob() then remove_content(), both without path, once each when run
\* has returned.
C13_RemoveAllIsTwoCalls ==
  InRemoveAll =>
    /\ IsPrefix(CallsMade, <<OpFile(Ev("remove_blob", 0)), OpFile(Ev("remove_content", 0))>>)
    /\ (pc = "done" /\ err = NoErr) => Len(calls) = 2
    /\ pc # "done" => Len(calls) = (IF pc = "remove_all" THEN 0 ELSE 1)
    /\ \A i \in 1..Len(calls) :
         calls[i].raised => (i = Len(calls) /\ pc = "done" /\ err # NoErr)
    /\ files = <<>>
    /\ cur = 0
    /\ indexed = <<>>

\* C13 witness: run with action RemoveAll has returned.
C13_Witness ==
  /\ InRemoveAll
  /\ pc = "done"
  /\ err = NoErr
  /\ Len(calls) = 2

\* C14: in setup with content understanding enabled, a missing endpoint or an
\* AzureKeyCredential ends setup with a ValueError and no PUT is ever sent;
\* whenever a PUT has been sent, the configuration had passed both checks.
C14_ValidationPrecedesAnalyzerCreation ==
  /\ (entry = "setup" /\ use_content_understanding
        /\ (content_understanding_endpoint = "None" \/ credential = "AzureKeyCredential"))
       => /\ pc = "done"
          /\ IsInstance(err, "ValueError")
          /\ puts = <<>>
          /\ gets = <<>>
          /\ Count("PUT") = 0
          /\ calls = <<Ev("create_index", 0)>>
  /\ puts # <<>>
       => /\ use_content_understanding
          /\ content_understanding_endpoint # "None"
          /\ credential # "AzureKeyCredential"

\* C14 witness: setup was refused for an AzureKeyCredential, the endpoint given.
C14_Witness ==
  /\ entry = "setup"
  /\ use_content_understanding
  /\ content_understanding_endpoint # "None"
  /\ credential = "AzureKeyCredential"
  /\ pc = "done"
  /\ err # NoErr

\* C15: once setup has ended in error nothing happens any more: main does not
\* call run, so no file is listed, parsed, uploaded, indexed or removed; and run
\* called by main finds the log empty of any failed setup.
C15_FailedSetupPreventsRun ==
  /\ [](SetupFailed => (\A i \in 1..Len(calls) : calls[i].op \in {"create_index", "PUT", "GET"}))
  /\ [](SetupFailed => indexed = <<>> /\ files = <<>> /\ cur = 0)
  /\ [][SetupFailed => UNCHANGED vars]_vars
  /\ [][(entry = "setup" /\ entry' # "setup") => (err = NoErr /\ pc = "done")]_vars

\* C15 witness: setup has ended with the error of a failed analyzer creation.
C15_Witness ==
  /\ SetupFailed
  /\ puts # <<>>
  /\ err = Exc("Exception", "Error creating analyzer")

\* C16: the extractor is called for a file only if its lower-cased extension is
\* ".pdf", the parser produced at least one page and a client was given; with
\* no client, the extractor is never called and no section carries a planid.
C16_ExtractorOnlyForPdfWithPagesAndClient ==
  /\ \A i \in 1..Len(calls) :
       calls[i].op = "extract"
         => /\ calls[i].file = cur
            /\ Lower(files[cur]) = ".pdf"
            /\ pages # <<>>
            /\ openai_client # "None"
  /\ openai_client = "None"
       => /\ Count("extract") = 0
          /\ Count("chat.completions.create") = 0
          /\ planid = "None"
          /\ \A n \in 1..Len(sections) : sections[n].planid = "None"
          /\ \A k \in 1..Len(indexed) :
               \A n \in 1..Len(indexed[k].sections) : indexed[k].sections[n].planid = "None"

\* C16 witness: parse_file, given a ".pdf" with a page of text but no client,
\* has returned sections without calling the extractor.
C16_Witness ==
  /\ entry = "parse_file"
  /\ openai_client = "None"
  /\ Lower(files[1]) = ".pdf"
  /\ pages # <<>>
  /\ pages[1] # ""
  /\ sections # <<>>
  /\ pc = "done"
  /\ err = NoErr

\* C17: in run with action Add, upload_blob and update_content are called at
\* most once per file and only for a file with at least one section,
\* update_content after upload_blob has returned; when the block of the file
\* ends without any call having raised, both were called exactly once if the
\* file has sections and neither was called if it has none.
C17_UploadAndIndexIffSections ==
  (InAdd /\ cur >= 1) =>
    /\ \A f \in 1..cur :
         /\ CountFor("upload_blob", f) <= 1
         /\ CountFor("update_content", f) <= 1
         /\ CountFor("update_content", f) = 1 => Ev("upload_blob", f) \in {calls[i] : i \in 1..Len(calls)}
    /\ pc \notin {"pf_parse", "done"}
         => /\ CountFor("upload_blob", cur) = 1 => sections # <<>>
            /\ CountFor("update_content", cur) = 1 => sections # <<>>
    /\ (pc \in {"run_finally", "run_next"} /\ ~SomeCallRaised)
         => IF sections # <<>>
              THEN CountFor("upload_blob", cur) = 1 /\ CountFor("update_content", cur) = 1
              ELSE CountFor("upload_blob", cur) = 0 /\ CountFor("update_content", cur) = 0

\* C17 witness: the first file had sections and was uploaded and indexed, the
\* second one was parsed and split into no section and got neither call.
C17_Witness ==
  /\ InAdd
  /\ cur = 2
  /\ pc = "run_finally"
  /\ ~SomeCallRaised
  /\ CountFor("split", 2) = 1
  /\ sections = <<>>
  /\ CountFor("upload_blob", 1) = 1
  /\ CountFor("update_content", 1) = 1
  /\ CountFor("upload_blob", 2) = 0
  /\ CountFor("update_content", 2) = 0
\* The parser named e has returned (without error).
Parsed(e) == entry = e /\ pc = "done" /\ err = NoErr
\* The text a content decodes to, counted in lines as a reader of the file
\* would: one line per line feed, and one more for a last line without one.
ContentText == decode(parse_content.data)
LineFeeds(s) == Cardinality({i \in 1..Len(s) : s[i] = "\n"})
LineCount(s) == LineFeeds(s) + (IF s # <<>> /\ s[Len(s)] # "\n" THEN 1 ELSE 0)
DataLines(s) == IF LineCount(s) = 0 THEN 0 ELSE LineCount(s) - 1
HasQuote(s) == \E i \in 1..Len(s) : s[i] = "\""
PagesNumbered == \A k \in 1..Len(parsed) : parsed[k].page_num = k - 1

\* C18 as stated: a header line followed by N data lines yields exactly N
\* Pages, numbered 0..N-1.
C18_NPagesForNDataLines ==
  Parsed("CsvParser.parse") => (Len(parsed) = DataLines(ContentText) /\ PagesNumbered)

\* C18 amended: CsvParser.parse yields one Page per record csv.reader reads
\* after the first record, numbered 0..N-1 in order, its text the record's
\* fields joined by commas, its offset the sum of len(text) + 1 of the Pages
\* before it; a record is a line unless a double-quoted field is left open at
\* the end of the line, and then goes on with the next line, so there are never
\* more Pages than data lines; for a content without double quote, a header
\* line followed by N data lines yields exactly N Pages and each text is its
\* line; a content of at most one line yields no Page.
C18_OnePagePerRecordAfterTheFirst ==
  Parsed("CsvParser.parse") =>
    LET lines == splitlines(ContentText)
        rows  == csv_reader(lines)
    IN /\ PagesNumbered
       /\ Len(parsed) = (IF rows = <<>> THEN 0 ELSE Len(rows) - 1)
       /\ \A k \in 1..Len(parsed) :
            /\ parsed[k].text = join(rows[k + 1])
            /\ parsed[k].offset = (IF k = 1 THEN 0
                                   ELSE parsed[k - 1].offset + Len(parsed[k - 1].text) + 1)
       /\ Len(lines) = LineCount(ContentText)
       /\ Len(parsed) <= DataLines(ContentText)
       /\ LineCount(ContentText) <= 1 => parsed = <<>>
       /\ ~HasQuote(ContentText)
            => /\ Len(parsed) = DataLines(ContentText)
               /\ \A k \in 1..Len(parsed) : parsed[k].text = lines[k + 1]

\* C18 witness: after a header line, a quoted field left open on the first of
\* two data lines made one Page of both.
C18_Witness ==
  /\ Parsed("CsvParser.parse")
  /\ HasQuote(ContentText)
  /\ DataLines(ContentText) = 2
  /\ ContentText[1] = "a"
  /\ Len(parsed) = 1
  /\ parsed[1].text # <<>>

\* C19: CsvParser.parse raises no error and yields the same Pages for a
\* content given as bytes, as a binary stream or as a text stream.
C19_SamePagesForBytesAndStreams ==
  (entry = "CsvParser.parse" /\ pc = "done")
    => (err = NoErr /\ parsed = CsvPages(ContentText))

\* C20: TextParser.parse on a binary stream returns, and yields a single Page,
\* index 0, offset 0, whose text has no two line feeds in a row, no two
\* non-newline whitespace characters in a row, and no whitespace at either end.
C20_TextIsNormalised ==
  /\ (entry = "TextParser.parse" /\ parse_content.type = "BufferedReader")
       => Parsed("TextParser.parse")
  /\ Parsed("TextParser.parse") =>
       /\ Len(parsed) = 1
       /\ parsed[1].page_num = 0
       /\ parsed[1].offset = 0
       /\ LET text == parsed[1].text
          IN /\ \A i \in 1..(Len(text) - 1) :
                  /\ ~(text[i] = "\n" /\ text[i + 1] = "\n")
                  /\ ~(text[i] \in Blank /\ text[i + 1] \in Blank)
             /\ text # <<>> => (text[1] \notin Whitespace /\ text[Len(text)] \notin Whitespace)

\* C20 witness: a text with a run of line feeds, a run of blanks and
\* whitespace at an end went through the parser and kept some text.
C20_Witness ==
  /\ Parsed("TextParser.parse")
  /\ \E i \in 1..(Len(ContentText) - 1) : ContentText[i] \in Blank /\ ContentText[i + 1] \in Blank
  /\ ContentText[Len(ContentText)] \in Whitespace
  /\ Len(parsed[1].text) >= 2
\* How many brackets and braces are open just before position i of s.
Depth(s, i) ==
  Cardinality({j \in 1..(i - 1) : s[j] \in {"[", "{"}})
    - Cardinality({j \in 1..(i - 1) : s[j] \in {"]", "}"}})
\* The commas between the elements of the top-level array s, its number of
\* elements, and the source of its k-th element.
TopCommas(s) == {i \in 1..Len(s) : s[i] = "," /\ Depth(s, i) = 1}
ElementCount(s) == IF Len(s) = 2 THEN 0 ELSE Cardinality(TopCommas(s)) + 1
ElementEnd(s, k) ==
  IF k = 0 THEN 1
  ELSE IF k = ElementCount(s) THEN Len(s)
  ELSE CHOOSE i \in TopCommas(s) : Cardinality({j \in TopCommas(s) : j < i}) = k - 1
ElementSource(s, k) == SubSeq(s, ElementEnd(s, k - 1) + 1, ElementEnd(s, k) - 1)

\* C21: JsonParser.parse, for a top-level array of M elements, yields M Pages,
\* numbered 0..M-1 in element order, the text of each the json.dumps of its
\* element, the first offset 1 and each next offset the one before plus the
\* length of that Page's text plus 1; for a top-level object it yields one
\* Page, numbered 0, at offset 0.
C21_PagesOfArrayAndObject ==
  Parsed("JsonParser.parse") =>
    /\ ContentText # <<>>
    /\ ContentText[1] = "[" =>
         /\ Len(parsed) = ElementCount(ContentText)
         /\ \A k \in 1..Len(parsed) :
              /\ parsed[k].page_num = k - 1
              /\ parsed[k].text = json_loads(ElementSource(ContentText, k)).text
              /\ parsed[k].offset = (IF k = 1 THEN 1
                                     ELSE parsed[k - 1].offset + Len(parsed[k - 1].text) + 1)
    /\ ContentText[1] = "{" =>
         /\ Len(parsed) = 1
         /\ parsed[1].page_num = 0
         /\ parsed[1].offset = 0
         /\ parsed[1].text = json_loads(ContentText).text

\* C21 witness: an array of two strings has given two Pages, the second one
\* at offset 5.
C21_Witness ==
  /\ Parsed("JsonParser.parse")
  /\ ContentText[1] = "["
  /\ Len(parsed) = 2
  /\ parsed[1].offset = 1
  /\ parsed[2].offset = 5
\* The files whose content handle is open: yielded by the lister, not closed.
OpenHandles == {f \in 1..Len(files) : CountFor("list", f) = 1 /\ CountFor("close", f) = 0}
InRemoveFile == entry = "remove_file" /\ pc = "done"

\* C22: remove_file called with a filename that is None or "" returns without
\* any remove_content call; called with another filename it makes exactly one
\* remove_content call, whose arguments are that filename and the owner
\* identifier it was given.
C22_RemoveFileIsANoOpWithoutFilename ==
  /\ InRemoveFile =>
       IF remove_args.filename \in {"None", ""}
         THEN calls = <<>> /\ removed = <<>> /\ err = NoErr
         ELSE /\ Len(calls) = 1
              /\ calls[1].op = "remove_content"
              /\ removed = <<remove_args>>
              /\ calls[1].raised <=> err # NoErr
  /\ entry # "remove_file" => removed = <<>>

\* C22 witness: remove_file has removed the entries of a named file for the
\* second owner.
C22_Witness ==
  /\ InRemoveFile
  /\ remove_args = [filename |-> "a.pdf", oid |-> "oid2"]
  /\ calls = <<Ev("remove_content", 0)>>
  /\ err = NoErr

\* C23: in run with action Add the files are taken in lister order, one at a
\* time: at most one content handle is open, it is the current file's, every
\* call made for a file is made while its handle is open, and nothing is
\* called for a file before the handle of the file before it is closed.
C23_OneFileAtATime ==
  InAdd =>
    /\ Cardinality(OpenHandles) <= 1
    /\ OpenHandles \subseteq {cur}
    /\ \A j \in 1..Len(calls) :
         LET f == calls[j].file
         IN f >= 1 =>
              /\ f <= cur
              /\ \E i \in 1..j : calls[i] = Ev("list", f)
              /\ calls[j].op # "close" => \A i \in 1..j : calls[i].op = "close" => calls[i].file < f
              /\ f >= 2 => \E i \in 1..(j - 1) : calls[i] = Ev("close", f - 1)
    /\ \A i, j \in 1..Len(calls) : (i < j /\ calls[i].file >= 1) => calls[i].file <= calls[j].file
    /\ pc = "done" => OpenHandles = {}

\* C23 witness: the second file is being indexed, the first one closed.
C23_Witness ==
  /\ InAdd
  /\ cur = 2
  /\ pc = "run_finally"
  /\ CountFor("update_content", 1) = 1
  /\ CountFor("close", 1) = 1
  /\ CountFor("update_content", 2) = 1
  /\ OpenHandles = {2}

\* C24: when add_file has ended, by return or by error, the file's content
\* handle has been closed.
C24_AddFileClosesOnEveryExit ==
  (entry = "add_file" /\ pc = "done") => CountFor("close", 1) = 1

\* C25: run hands no client to parse_file: in run the extractor and the
\* language model are never called, and every section handed to update_content
\* is without planid, ".pdf" files with text on the first page included.
C25_RunNeverExtracts ==
  entry = "run" =>
    /\ openai_client = "None"
    /\ planid = "None"
    /\ Count("extract") = 0
    /\ Count("chat.completions.create") = 0
    /\ \A n \in 1..Len(sections) : sections[n].planid = "None"
    /\ \A k \in 1..Len(indexed) :
         \A n \in 1..Len(indexed[k].sections) : indexed[k].sections[n].planid = "None"

\* C25 witness: run has indexed the sections of a ".pdf" whose first page has
\* text.
C25_Witness ==
  /\ InAdd
  /\ cur = 1
  /\ files[1] = ".pdf"
  /\ pages # <<>>
  /\ pages[1] # ""
  /\ Len(indexed) = 1
  /\ indexed[1].sections # <<>>
  /\ pc = "run_finally"

\* C26: poll_api goes on only after a "Running" answer; a GET that ends in an
\* HTTP error status is the last one: poll_api has raised that error, which a
\* caller can tell apart from the error of a "Failed" status and from the
\* error of the exhausted budget.
C26_HttpErrorEndsPollingAtOnce ==
  /\ \A i \in 1..(Len(gets) - 1) : gets[i].status = "Running"
  /\ \A i \in 1..Len(gets) :
       gets[i].status = "HTTPError"
         => /\ i = Len(gets)
            /\ Count("GET") = i
            /\ pollState = "raised"
            /\ pollErr = Exc("ClientResponseError", "status")
            /\ pc = "done"
            /\ err = pollErr
            /\ Distinguishable(pollErr, PollRaises("Failed"))
            /\ Distinguishable(pollErr, Exhausted(PollRaises("Running")))

\* C26 witness: an HTTP error after two "Running" answers has ended the
\* polling of describe_image.
C26_Witness ==
  /\ entry = "describe_image"
  /\ Len(gets) = 3
  /\ AllRunning(Front(gets))
  /\ gets[3].status = "HTTPError"
  /\ pollState = "raised"
====
